---- MODULE Spec2Model ----
(***************************************************************************)
(* Model of the terminology checking engine of Bilingual_MCP:              *)
(*   src/app/core/database.py     TerminologyDatabase (term and rule store) *)
(*   src/app/core/terminology.py  TerminologyChecker (check_text)           *)
(*   src/data/tbx_importer.py     TBXImporter (setup_database, import)      *)
(* A text is a sequence of one-character strings; offsets are Python's      *)
(* 0-based offsets, so text[s:e] is SubSeq(text, s + 1, e).                 *)
(***************************************************************************)
EXTENDS Integers, Sequences, FiniteSets, TLC

\* ------------------------------------------------------------------ bounds
MaxLen == 1
MaxTerms == 2
MaxAddedRules == 1
NumInstances == 3
MaxTokens == 3
MaxRaw == 3
MaxLookupLen == 2
MaxPlaceholderLen == 3

\* ------------------------------------------------------------- characters
Alphabet == {"a", "b", "{", "}"}

\* the upper-case letters modelled, each with its lower-case letter
UpperToLower ==
  [A |-> "a", B |-> "b", G |-> "g", I |-> "i", K |-> "k", L |-> "l", N |-> "n", O |-> "o"]

\* SQL LOWER() and LIKE fold ASCII letters only.
SqlLower(c) == IF c \in DOMAIN UpperToLower THEN UpperToLower[c] ELSE c

\* a letter outside ASCII with its lower-case letter, each one character, written
\* by name: LATIN CAPITAL / SMALL LETTER E WITH ACUTE
UnicodeUpperToLower == [E_acute |-> "e_acute"]

\* re.IGNORECASE on a str pattern folds every cased letter; on the ASCII letters
\* it agrees with SQL.
ReFold(c) ==
  IF c \in DOMAIN UpperToLower THEN UpperToLower[c]
  ELSE IF c \in DOMAIN UnicodeUpperToLower THEN UnicodeUpperToLower[c]
  ELSE c

\* the modelled characters that are not \w to the regex engine (letters, kana,
\* digits and "_" are \w)
NonWordChars == {" ", "-", "{", "}", "%", "$", "(", ")", "*", "."}

IsWordChar(c) == c \notin NonWordChars

\* text[s:e]
Slice(text, s, e) == SubSeq(text, s + 1, e)

SeqsUpTo(S, n) == UNION {[1..k -> S] : k \in 0..n}

Reverse(s) == [i \in 1..Len(s) |-> s[Len(s) + 1 - i]]

\* ---------------------------------------------------------------- matching
RECURSIVE LikeMatch(_, _)
\* SQL: str LIKE pat, with % (any run) and _ (any one character); ASCII case-insensitive
LikeMatch(pat, str) ==
  IF pat = <<>> THEN str = <<>>
  ELSE IF Head(pat) = "%"
    THEN \E k \in 0..Len(str) : LikeMatch(Tail(pat), SubSeq(str, k + 1, Len(str)))
  ELSE IF str = <<>> THEN FALSE
  ELSE /\ (Head(pat) = "_" \/ SqlLower(Head(pat)) = SqlLower(Head(str)))
       /\ LikeMatch(Tail(pat), Tail(str))

SqlLowerStr(s) == [i \in 1..Len(s) |-> SqlLower(s[i])]

\* WHERE LOWER(?) LIKE '%' || LOWER(source_term) || '%'
TermIsCandidate(text, source_term) ==
  LikeMatch(<<"%">> \o SqlLowerStr(source_term) \o <<"%">>, SqlLowerStr(text))

\* lit occurs at offset p of text, letters compared case-insensitively
LitAt(lit, text, p) ==
  /\ p + Len(lit) <= Len(text)
  /\ \A i \in 1..Len(lit) : ReFold(text[p + i]) = ReFold(lit[i])

\* \b at offset p: exactly one of the characters around p is a \w
WordBoundary(text, p) ==
  LET before == p >= 1 /\ IsWordChar(text[p])
      after == p < Len(text) /\ IsWordChar(text[p + 1])
  IN before # after

\* the regex of a parsed pattern matches at offset p: the end offset, or -1
MatchEndAt(pattern, text, p) ==
  CASE pattern.kind = "lit" ->
         IF LitAt(pattern.lit, text, p) THEN p + Len(pattern.lit) ELSE -1
    [] pattern.kind = "word" ->
         IF /\ LitAt(pattern.lit, text, p)
            /\ WordBoundary(text, p)
            /\ WordBoundary(text, p + Len(pattern.lit))
         THEN p + Len(pattern.lit) ELSE -1
    [] pattern.kind = "star" ->
         \* c*: the longest run of c from p, possibly empty
         LET run == {e \in p..Len(text) :
                       \A i \in (p + 1)..e : ReFold(text[i]) = ReFold(pattern.lit[1])}
         IN CHOOSE e \in run : \A f \in run : f <= e
    [] OTHER -> -1

RECURSIVE Finditer(_, _, _)
\* regex.finditer(text) from offset p: the non-overlapping matches from left to
\* right as <<start, end>>; after an empty match the scan moves one character on,
\* after a non-empty one it goes on at its end (where an empty match may follow)
Finditer(pattern, text, p) ==
  IF p > Len(text) THEN <<>>
  ELSE LET e == MatchEndAt(pattern, text, p)
       IN IF e = -1 THEN Finditer(pattern, text, p + 1)
          ELSE IF e = p
            THEN <<<<p, p>>>> \o Finditer(pattern, text, p + 1)
            ELSE <<<<p, e>>>> \o Finditer(pattern, text, e)

\* re.compile(pattern, re.IGNORECASE): "ok", "re.error" (the pattern does not
\* parse, as "("), or "OverflowError" (as "a{99999999999999999999}", raised by the
\* parser and not a re.error)
ReCompile(pattern) ==
  CASE pattern.kind = "bad" -> "re.error"
    [] pattern.kind = "overflow" -> "OverflowError"
    [] OTHER -> "ok"

\* ------------------------------------------------------------- placeholders
\* the offset of the first character c at or after offset p, or -1
FirstAt(text, c, p) ==
  LET hits == {q \in p..(Len(text) - 1) : text[q + 1] = c}
  IN IF hits = {} THEN -1 ELSE CHOOSE q \in hits : \A r \in hits : q <= r

CharAt(text, p) == IF p >= 0 /\ p < Len(text) THEN text[p + 1] ELSE "<none>"

\* the four patterns of _check_placeholders, terminology.py:85-90: end offset of a
\* match at offset p, or -1
PlaceholderEndAt(family, text, p) ==
  CASE family = "curly" ->          \* \{[^}]*\}
         IF CharAt(text, p) = "{" /\ FirstAt(text, "}", p + 1) # -1
         THEN FirstAt(text, "}", p + 1) + 1 ELSE -1
    [] family = "printf" ->         \* %[sd]
         IF CharAt(text, p) = "%" /\ CharAt(text, p + 1) \in {"s", "d"}
         THEN p + 2 ELSE -1
    [] family = "shell" ->          \* \$\{[^}]*\}
         IF CharAt(text, p) = "$" /\ CharAt(text, p + 1) = "{"
            /\ FirstAt(text, "}", p + 2) # -1
         THEN FirstAt(text, "}", p + 2) + 1 ELSE -1
    [] family = "python" ->         \* %\([^)]+\)[sd]
         LET close == FirstAt(text, ")", p + 2)
         IN IF CharAt(text, p) = "%" /\ CharAt(text, p + 1) = "("
               /\ close > p + 2 /\ CharAt(text, close + 1) \in {"s", "d"}
            THEN close + 2 ELSE -1

RECURSIVE PlaceholderFinditer(_, _, _)
\* re.finditer(pattern, text): no placeholder pattern matches the empty string
PlaceholderFinditer(family, text, p) ==
  IF p >= Len(text) THEN <<>>
  ELSE LET e == PlaceholderEndAt(family, text, p)
       IN IF e = -1 THEN PlaceholderFinditer(family, text, p + 1)
          ELSE <<<<p, e>>>> \o PlaceholderFinditer(family, text, e)

PlaceholderFamilies == <<"curly", "printf", "shell", "python">>

MinimalPlaceholders == {<<"{", "}">>, <<"%", "s">>, <<"%", "d">>}

PlaceholderIssue(family, text, m) ==
  [type |-> "placeholder_issue", original |-> Slice(text, m[1], m[2]),
   suggestion |-> "Verify placeholder content", start |-> m[1], end |-> m[2],
   severity |-> "warning", reason |-> <<"Empty or minimal", family>>,
   source |-> "validation"]

\* a match is flagged when it is at most 2 long or one of {}, %s, %d
PlaceholderFlagged(text, m) ==
  \/ m[2] - m[1] <= 2
  \/ Slice(text, m[1], m[2]) \in MinimalPlaceholders

\* the flagged matches of one pattern, in match order
FamilyIssues(family, text) ==
  LET ms == PlaceholderFinditer(family, text, 0)
      flagged == SelectSeq(ms, LAMBDA m : PlaceholderFlagged(text, m))
  IN [i \in 1..Len(flagged) |-> PlaceholderIssue(family, text, flagged[i])]

RECURSIVE PlaceholderIssuesFrom(_, _)
PlaceholderIssuesFrom(text, k) ==
  IF k > Len(PlaceholderFamilies) THEN <<>>
  ELSE FamilyIssues(PlaceholderFamilies[k], text) \o PlaceholderIssuesFrom(text, k + 1)

\* TerminologyChecker._check_placeholders: the patterns one after the other
CheckPlaceholders(text) == PlaceholderIssuesFrom(text, 1)

\* -------------------------------------------------------------- aggregation
\* faulty variant: the kind is left out of the key
IssueKeyWithoutType(issue) == <<issue.start, issue.end, issue.original>>

IssueKey(issue) == <<issue.start, issue.end, issue.original, issue.type>>

RECURSIVE DeduplicateFrom(_, _, _)
DeduplicateFrom(issues, i, seen) ==
  IF i > Len(issues) THEN <<>>
  ELSE IF IssueKey(issues[i]) \in seen
    THEN DeduplicateFrom(issues, i + 1, seen)
    ELSE <<issues[i]>> \o DeduplicateFrom(issues, i + 1, seen \cup {IssueKey(issues[i])})

\* TerminologyChecker._deduplicate_issues: the first issue of each key is kept
DeduplicateIssues(issues) == DeduplicateFrom(issues, 1, {})

RECURSIVE InsertBeforeTies(_, _)
\* faulty variant: x goes before the elements whose start equals its own
InsertBeforeTies(sorted, x) ==
  IF sorted = <<>> THEN <<x>>
  ELSE IF Head(sorted).start < x.start
    THEN <<Head(sorted)>> \o InsertBeforeTies(Tail(sorted), x)
    ELSE <<x>> \o sorted

RECURSIVE InsertByStart(_, _)
\* x goes after every element whose start is <= its own: the sort is stable
InsertByStart(sorted, x) ==
  IF sorted = <<>> THEN <<x>>
  ELSE IF Head(sorted).start <= x.start
    THEN <<Head(sorted)>> \o InsertByStart(Tail(sorted), x)
    ELSE <<x>> \o sorted

RECURSIVE SortFrom(_, _, _)
SortFrom(issues, i, acc) ==
  IF i > Len(issues) THEN acc ELSE SortFrom(issues, i + 1, InsertByStart(acc, issues[i]))

\* issues.sort(key=lambda x: x['start'])
SortByStart(issues) == SortFrom(issues, 1, <<>>)

\* ------------------------------------------------------------------ store
VARIABLES
  fileExists,   \* the database file exists (Path.exists)
  tables,       \* the tables of the schema present in the file
  terms,        \* rows of the terms table, in rowid order
  rules,        \* rows of the rules table, in rowid order
  createdBy,    \* who first created the file: "none", "engine", "other"
  opened,       \* TerminologyChecker instances constructed on the store so far:
                \* "none", "one" or "several"
  last,         \* the check_text call the caller holds the result of
  pc            \* position of each concurrently initializing instance

vars == <<fileExists, tables, terms, rules, createdBy, opened, last, pc>>

Languages == {"en", "jp", "fr"}
SupportedLanguages == {"en", "jp"}

\* database.py:71-78, as (language, pattern, replacement, rule_type, severity, description).
\* A pattern is kept parsed: "word" is \blit\b, "lit" is the literal lit. Each katakana
\* character of the jp rules is one character, written "ka_" and its reading.
DefaultRules ==
  << [language |-> "en", pattern |-> [kind |-> "word", lit |-> <<"l","o","g","i","n">>],
      replacement |-> <<"s","i","g","n"," ","i","n">>, rule_type |-> "preferred_synonym",
      severity |-> "warning", description |-> "Prefer sign in over login"],
     [language |-> "en", pattern |-> [kind |-> "word", lit |-> <<"L","o","g","o","u","t">>],
      replacement |-> <<"S","i","g","n"," ","o","u","t">>, rule_type |-> "preferred_synonym",
      severity |-> "warning", description |-> "Prefer Sign out over Logout"],
     [language |-> "en", pattern |-> [kind |-> "word", lit |-> <<"e","-","m","a","i","l">>],
      replacement |-> <<"e","m","a","i","l">>, rule_type |-> "preferred_synonym",
      severity |-> "warning", description |-> "Use email without hyphen"],
     [language |-> "en", pattern |-> [kind |-> "word", lit |-> <<"O","k">>],
      replacement |-> <<"O","K">>, rule_type |-> "preferred_synonym",
      severity |-> "info", description |-> "Use OK in all caps"],
     [language |-> "jp", pattern |-> [kind |-> "lit", lit |-> <<"ka_ro","ka_gu","ka_i","ka_n">>],
      replacement |-> <<"ka_sa","ka_i","ka_n","ka_i","ka_n">>, rule_type |-> "preferred_synonym",
      severity |-> "warning", description |-> "Use sain-in instead of rogu-in"],
     [language |-> "jp", pattern |-> [kind |-> "lit", lit |-> <<"ka_ro","ka_gu","ka_a","ka_u","ka_to">>],
      replacement |-> <<"ka_sa","ka_i","ka_n","ka_a","ka_u","ka_to">>, rule_type |-> "preferred_synonym",
      severity |-> "warning", description |-> "Use sain-auto instead of rogu-auto"] >>

NoCheck == [called |-> FALSE]

Init ==
  /\ fileExists = FALSE
  /\ tables = {}
  /\ terms = <<>>
  /\ rules = <<>>
  /\ createdBy = "none"
  /\ opened = "none"
  /\ last = NoCheck
  /\ pc = [i \in 1..NumInstances |-> "init"]

\* ------------------------------------------------- store initialization
\* sqlite3.connect creates the file; CREATE TABLE IF NOT EXISTS for terms and
\* rules; then the six default rules are inserted unconditionally and committed.
CreateEmptyDatabase ==
  /\ fileExists' = TRUE
  /\ tables' = tables \cup {"terms", "rules"}
  /\ rules' = rules \o DefaultRules
  /\ createdBy' = IF createdBy = "none" THEN "engine" ELSE createdBy
  /\ UNCHANGED terms

\* faulty variant: the existence check is dropped, every open re-creates and re-seeds
EnsureDatabaseExistsNoGuard == CreateEmptyDatabase

EnsureDatabaseExists ==
  IF ~fileExists
    THEN CreateEmptyDatabase
    ELSE UNCHANGED <<fileExists, tables, terms, rules, createdBy>>

OneMore(n) == IF n = "none" THEN "one" ELSE "several"

\* TerminologyChecker(db_path) / TerminologyDatabase(db_path): a new instance on the store
Open ==
  /\ last = NoCheck
  /\ EnsureDatabaseExists
  /\ opened' = OneMore(opened)
  /\ UNCHANGED <<last, pc>>

\* TBXImporter(db_path): setup_database creates the file and both tables, no rules
ImporterSetup ==
  /\ last = NoCheck
  /\ fileExists' = TRUE
  /\ tables' = tables \cup {"terms", "rules"}
  /\ createdBy' = IF createdBy = "none" THEN "other" ELSE createdBy
  /\ UNCHANGED <<terms, rules, opened, last, pc>>

InterruptStages == {"connected", "terms_created"}

\* a first initialization whose process dies inside _create_empty_database: the
\* file exists from sqlite3.connect on and each CREATE TABLE is durable as soon as it
\* has run (a death after both tables and before conn.commit() leaves what
\* ImporterSetup leaves)
OpenInterrupted(stage) ==
  /\ last = NoCheck
  /\ ~fileExists
  /\ fileExists' = TRUE
  /\ tables' = CASE stage = "connected" -> tables
                 [] stage = "terms_created" -> tables \cup {"terms"}
  /\ createdBy' = "other"
  /\ UNCHANGED <<terms, rules, opened, last, pc>>

\* ---------------------------------------------------------------- writes
TermInputs ==
  { [source_lang |-> "en", target_lang |-> "jp", source_term |-> <<"a">>,
     target_term |-> "X", term_type |-> "preferred", domain |-> "", definition |-> ""],
    [source_lang |-> "en", target_lang |-> "jp", source_term |-> <<"A">>,
     target_term |-> "Y", term_type |-> "preferred", domain |-> "ui", definition |-> "def"],
    [source_lang |-> "en", target_lang |-> "jp", source_term |-> <<"b">>,
     target_term |-> "Z", term_type |-> "admitted", domain |-> "", definition |-> ""] }

\* patterns as parsed: "a*", "(" (does not compile: re.error),
\* "a{99999999999999999999}" (re.compile raises OverflowError), and "b" for fr
RuleInputs ==
  { [language |-> "en", pattern |-> [kind |-> "star", lit |-> <<"a">>],
     replacement |-> "s", rule_type |-> "consistency", severity |-> "info",
     description |-> "one style"],
    [language |-> "en", pattern |-> [kind |-> "bad", lit |-> <<"(">>],
     replacement |-> "t", rule_type |-> "preferred_synonym", severity |-> "warning",
     description |-> ""],
    [language |-> "en", pattern |-> [kind |-> "overflow", lit |-> <<"a">>],
     replacement |-> "u", rule_type |-> "preferred_synonym", severity |-> "warning",
     description |-> ""],
    [language |-> "fr", pattern |-> [kind |-> "lit", lit |-> <<"b">>],
     replacement |-> "v", rule_type |-> "preferred_synonym", severity |-> "warning",
     description |-> ""] }

Range(s) == {s[i] : i \in 1..Len(s)}

AddedRules == {i \in 1..Len(rules) : rules[i] \notin Range(DefaultRules)}

\* TerminologyDatabase.add_term: one INSERT; a sqlite3.Error (no terms table) is
\* caught and the call returns False
AddTerm(row) ==
  /\ last = NoCheck
  /\ opened # "none"
  /\ Len(terms) < MaxTerms
  /\ terms' = IF "terms" \in tables THEN Append(terms, row) ELSE terms
  /\ UNCHANGED <<fileExists, tables, rules, createdBy, opened, last, pc>>

\* TerminologyDatabase.add_rule
AddRule(row) ==
  /\ last = NoCheck
  /\ opened # "none"
  /\ Cardinality(AddedRules) < MaxAddedRules
  /\ rules' = IF "rules" \in tables THEN Append(rules, row) ELSE rules
  /\ UNCHANGED <<fileExists, tables, terms, createdBy, opened, last, pc>>

\* ---------------------------------------------------------------- reads
\* Rows that tie under a query's ordering come back in an order the storage
\* chooses: insertion order ("asc") or its reverse ("desc", as under
\* PRAGMA reverse_unordered_selects)
RowOrders == {"asc", "desc"}

Scan(rows, rowOrder) == IF rowOrder = "asc" THEN rows ELSE Reverse(rows)

\* term_type compares as text: 'admitted' < 'deprecated' < 'preferred'
TypeRank == [admitted |-> 1, deprecated |-> 2, preferred |-> 3]

\* ORDER BY term_type, LENGTH(source_term) DESC: row x sorts strictly before row y
TermBefore(x, y) ==
  \/ TypeRank[x.term_type] < TypeRank[y.term_type]
  \/ /\ x.term_type = y.term_type
     /\ Len(x.source_term) > Len(y.source_term)

RECURSIVE InsertTerm(_, _)
InsertTerm(sorted, x) ==
  IF sorted = <<>> THEN <<x>>
  ELSE IF TermBefore(x, Head(sorted))
    THEN <<x>> \o sorted
    ELSE <<Head(sorted)>> \o InsertTerm(Tail(sorted), x)

RECURSIVE OrderTerms(_, _, _)
OrderTerms(rows, i, acc) ==
  IF i > Len(rows) THEN acc ELSE OrderTerms(rows, i + 1, InsertTerm(acc, rows[i]))

\* the SELECT of find_term_suggestions, database.py:97-102
SelectTerms(text, source_lang, rowOrder) ==
  LET hit == SelectSeq(Scan(terms, rowOrder),
                       LAMBDA row : /\ row.source_lang = source_lang
                                    /\ TermIsCandidate(text, row.source_term))
  IN OrderTerms(hit, 1, <<>>)

\* faulty variant: the rules of every language are fetched
SelectRulesAnyLanguage(language, rowOrder) == Scan(rules, rowOrder)

\* the SELECT of find_rule_violations, database.py:131-135: no ORDER BY
SelectRules(language, rowOrder) ==
  SelectSeq(Scan(rules, rowOrder), LAMBDA row : row.language = language)

\* faulty variant: original is the stored term instead of the text that matched
TermIssueStoredTerm(row, text, m) ==
  [type |-> "terminology_match", original |-> row.source_term,
   suggestion |-> row.target_term, start |-> m[1], end |-> m[2],
   severity |-> IF row.term_type = "preferred" THEN "info" ELSE "warning",
   reason |-> <<"Terminology database suggestion", row.domain>>,
   definition |-> row.definition, source |-> "database"]

TermIssue(row, text, m) ==
  [type |-> "terminology_match", original |-> Slice(text, m[1], m[2]),
   suggestion |-> row.target_term, start |-> m[1], end |-> m[2],
   severity |-> IF row.term_type = "preferred" THEN "info" ELSE "warning",
   reason |-> <<"Terminology database suggestion", row.domain>>,
   definition |-> row.definition, source |-> "database"]

\* re.compile(re.escape(source_term), re.IGNORECASE).finditer(text)
TermIssues(row, text) ==
  LET ms == Finditer([kind |-> "lit", lit |-> row.source_term], text, 0)
  IN [i \in 1..Len(ms) |-> TermIssue(row, text, ms[i])]

RECURSIVE TermIssuesFrom(_, _, _)
\* the loop over the fetched rows, database.py:104-120
TermIssuesFrom(rows, text, i) ==
  IF i > Len(rows) THEN <<>>
  ELSE TermIssues(rows[i], text) \o TermIssuesFrom(rows, text, i + 1)

Raised == [raised |-> TRUE, issues |-> <<>>]
Returned(issues) == [raised |-> FALSE, issues |-> issues]

\* TerminologyDatabase.find_term_suggestions: raises sqlite3.OperationalError when
\* the terms table is missing
FindTermSuggestions(text, source_lang, rowOrder) ==
  IF "terms" \notin tables THEN Raised
  ELSE Returned(TermIssuesFrom(SelectTerms(text, source_lang, rowOrder), text, 1))

\* faulty variant: original is the literal of the stored pattern instead of the text
\* that matched
RuleIssueStoredPattern(row, text, m) ==
  [type |-> row.rule_type, original |-> row.pattern.lit,
   suggestion |-> row.replacement, start |-> m[1], end |-> m[2],
   severity |-> row.severity,
   reason |-> IF row.description # ""
                THEN <<row.description>>
                ELSE <<"Rule-based suggestion", row.pattern, row.replacement>>,
   source |-> "rules"]

RuleIssue(row, text, m) ==
  [type |-> row.rule_type, original |-> Slice(text, m[1], m[2]),
   suggestion |-> row.replacement, start |-> m[1], end |-> m[2],
   severity |-> row.severity,
   reason |-> IF row.description # ""
                THEN <<row.description>>
                ELSE <<"Rule-based suggestion", row.pattern, row.replacement>>,
   source |-> "rules"]

\* the body of the loop of find_rule_violations for one row: a re.error is caught
\* and the row contributes nothing
RuleIssues(row, text) ==
  IF ReCompile(row.pattern) # "ok" THEN <<>>
  ELSE LET ms == Finditer(row.pattern, text, 0)
       IN [i \in 1..Len(ms) |-> RuleIssue(row, text, ms[i])]

RECURSIVE RuleIssuesFrom(_, _, _)
\* the loop over the fetched rows, database.py:137-155
RuleIssuesFrom(rows, text, i) ==
  IF i > Len(rows) THEN <<>>
  ELSE RuleIssues(rows[i], text) \o RuleIssuesFrom(rows, text, i + 1)

\* TerminologyDatabase.find_rule_violations: raises sqlite3.OperationalError when
\* the rules table is missing, and whatever re.compile raises that is no re.error
FindRuleViolations(text, language, rowOrder) ==
  LET rows == SelectRules(language, rowOrder)
  IN IF "rules" \notin tables THEN Raised
     ELSE IF \E i \in 1..Len(rows) : ReCompile(rows[i].pattern) \notin {"ok", "re.error"}
       THEN Raised
       ELSE Returned(RuleIssuesFrom(rows, text, 1))

\* ----------------------------------------------------------------- check
\* The external analysis source of one call: not configured, or configured and
\* answering with a list of issues whose offsets it reports itself.
ExternalIssue(text) ==
  [type |-> "terminology_suggestion", original |-> <<"x">>, suggestion |-> "llm",
   start |-> 0, end |-> Len(text), severity |-> "info", reason |-> <<"llm">>,
   source |-> "llm_analysis"]

ExternalOutcomes(text) ==
  { [configured |-> FALSE, issues |-> <<>>],
    [configured |-> TRUE, issues |-> <<ExternalIssue(text)>>] }

\* TerminologyChecker.check_text: one try block around the five steps; on an
\* exception the list built so far is returned as it is
CheckText(text, language, rowOrder, ext) ==
  LET t == FindTermSuggestions(text, language, rowOrder)
      r == FindRuleViolations(text, language, rowOrder)
  IN IF t.raised THEN <<>>
     ELSE IF r.raised THEN t.issues
     ELSE SortByStart(DeduplicateIssues(
            t.issues \o r.issues \o CheckPlaceholders(text)
              \o (IF ext.configured THEN ext.issues ELSE <<>>)))

ScenarioTexts ==
  { <<"A">>, <<"{", "}">>, <<"a", "b">>, <<"a", "{", "}">>,
    <<"l", "o", "g", "i", "n">>, <<"O", "K">>, <<"ka_ro", "ka_gu", "ka_i", "ka_n">> }

Texts == SeqsUpTo(Alphabet, MaxLen) \cup ScenarioTexts

\* await checker.check_text(text, language)
Check(text, language, rowOrder, ext) ==
  /\ opened # "none"
  /\ last = NoCheck
  /\ last' = [called |-> TRUE, text |-> text, language |-> language, ext |-> ext,
              issues |-> CheckText(text, language, rowOrder, ext)]
  /\ UNCHANGED <<fileExists, tables, terms, rules, createdBy, opened, pc>>

\* the call the caller holds the result of, made once more on the unchanged store
Recheck(rowOrder) ==
  /\ last # NoCheck
  /\ last' = [last EXCEPT !.issues = CheckText(last.text, last.language, rowOrder, last.ext)]
  /\ UNCHANGED <<fileExists, tables, terms, rules, createdBy, opened, pc>>

\* the caller is done with the returned list
Return ==
  /\ last # NoCheck
  /\ last' = NoCheck
  /\ UNCHANGED <<fileExists, tables, terms, rules, createdBy, opened, pc>>

Next ==
  \/ Open
  \/ ImporterSetup
  \/ \E stage \in InterruptStages : OpenInterrupted(stage)
  \/ \E row \in TermInputs : AddTerm(row)
  \/ \E row \in RuleInputs : AddRule(row)
  \/ \E text \in Texts, language \in Languages, rowOrder \in RowOrders :
       \E ext \in ExternalOutcomes(text) : Check(text, language, rowOrder, ext)
  \/ Return

Spec == Init /\ [][Next]_vars

\* the same operations, with calls repeated
NextRepeat ==
  \/ Open
  \/ ImporterSetup
  \/ \E stage \in InterruptStages : OpenInterrupted(stage)
  \/ \E row \in TermInputs : AddTerm(row)
  \/ \E row \in RuleInputs : AddRule(row)
  \/ \E text \in Texts, language \in Languages, rowOrder \in RowOrders :
       \E ext \in ExternalOutcomes(text) : Check(text, language, rowOrder, ext)
  \/ \E rowOrder \in RowOrders : Recheck(rowOrder)
  \/ Return

SpecRepeat == Init /\ [][NextRepeat]_vars

\* -------------------------------------- concurrent first initialization
Instances == 1..NumInstances

\* ensure_database_exists, database.py:24: the existence check of instance i
InitCheckExists(i) ==
  /\ pc[i] = "init"
  /\ pc' = [pc EXCEPT ![i] = IF fileExists THEN "ready" ELSE "create"]
  /\ opened' = IF fileExists THEN OneMore(opened) ELSE opened
  /\ UNCHANGED <<fileExists, tables, terms, rules, createdBy, last>>

\* _create_empty_database, database.py:30: sqlite3.connect creates the file
InitConnect(i) ==
  /\ pc[i] = "create"
  /\ pc' = [pc EXCEPT ![i] = "connected"]
  /\ fileExists' = TRUE
  /\ createdBy' = IF createdBy = "none" THEN "engine" ELSE createdBy
  /\ UNCHANGED <<tables, terms, rules, opened, last>>

\* database.py:34-48: CREATE TABLE IF NOT EXISTS terms
InitCreateTerms(i) ==
  /\ pc[i] = "connected"
  /\ pc' = [pc EXCEPT ![i] = "terms_created"]
  /\ tables' = tables \cup {"terms"}
  /\ UNCHANGED <<fileExists, terms, rules, createdBy, opened, last>>

\* database.py:51-63: CREATE TABLE IF NOT EXISTS rules
InitCreateRules(i) ==
  /\ pc[i] = "terms_created"
  /\ pc' = [pc EXCEPT ![i] = "rules_created"]
  /\ tables' = tables \cup {"rules"}
  /\ UNCHANGED <<fileExists, terms, rules, createdBy, opened, last>>

\* database.py:71-85: the INSERT of the default rules and the commit
InitInsertDefaults(i) ==
  /\ pc[i] = "rules_created"
  /\ pc' = [pc EXCEPT ![i] = "ready"]
  /\ rules' = rules \o DefaultRules
  /\ opened' = OneMore(opened)
  /\ UNCHANGED <<fileExists, tables, terms, createdBy, last>>

NextConcurrent ==
  \E i \in Instances :
    \/ InitCheckExists(i)
    \/ InitConnect(i)
    \/ InitCreateTerms(i)
    \/ InitCreateRules(i)
    \/ InitInsertDefaults(i)

SpecConcurrent == Init /\ [][NextConcurrent]_vars

\* ------------------------------------------------------------------ claims
OrEmpty(result) == IF result.raised THEN <<>> ELSE result.issues

ExternalIssuesOf(ext) == IF ext.configured THEN ext.issues ELSE <<>>

\* the aggregation of the four sources, a source that raised counting as empty
AggregateLenient(text, language, rowOrder, ext) ==
  SortByStart(DeduplicateIssues(
    OrEmpty(FindTermSuggestions(text, language, rowOrder))
      \o OrEmpty(FindRuleViolations(text, language, rowOrder))
      \o CheckPlaceholders(text) \o ExternalIssuesOf(ext)))

\* C1: a source of check() that raises counts as a source with no issues: the
\* returned list is the deduplicated, sorted list of the issues of all the others.
C1_FailingSourceCountsAsEmpty ==
  last # NoCheck =>
    \E rowOrder \in RowOrders :
      last.issues = AggregateLenient(last.text, last.language, rowOrder, last.ext)

\* C2: every list returned by check() is ordered by non-decreasing start offset.
C2_ResultSortedByStart ==
  last # NoCheck =>
    \A i, j \in 1..Len(last.issues) :
      i < j => last.issues[i].start <= last.issues[j].start

\* C3: no list returned by check() holds two issues with the same
\* (start, end, original, kind).
C3_ResultHasNoDuplicateKey ==
  last # NoCheck =>
    \A i, j \in 1..Len(last.issues) :
      i # j => IssueKey(last.issues[i]) # IssueKey(last.issues[j])

DirectSources == {"database", "rules", "validation"}

\* C4: for every returned issue of term lookup, rule lookup or placeholder
\* validation, the slice of the text at its offsets is its original.
C4_SliceEqualsOriginal ==
  last # NoCheck =>
    \A i \in 1..Len(last.issues) :
      LET issue == last.issues[i] IN
        issue.source \in DirectSources =>
          /\ 0 <= issue.start /\ issue.start <= issue.end /\ issue.end <= Len(last.text)
          /\ Slice(last.text, issue.start, issue.end) = issue.original

\* a check that returned a term match written in another case than the stored
\* term, an empty rule match and a placeholder issue
C4_Witness ==
  /\ last # NoCheck
  /\ \E i \in 1..Len(last.issues) :
       /\ last.issues[i].source = "database"
       /\ \A k \in 1..Len(terms) : terms[k].source_term # last.issues[i].original
  /\ \E i \in 1..Len(last.issues) :
       last.issues[i].source = "rules" /\ last.issues[i].start = last.issues[i].end
  /\ \E i \in 1..Len(last.issues) : last.issues[i].source = "validation"

\* C5: with no external source and no write in between, a repeated check returns
\* the same list, whatever order the storage returns tied rows in.
C5_RepeatedCheckSameResult ==
  [][(last # NoCheck /\ last' # NoCheck /\ ~last.ext.configured)
       => last'.issues = last.issues]_vars

CountRows(row, rows) == Cardinality({i \in 1..Len(rows) : rows[i] = row})

EachDefaultRuleOnce(rows) == \A d \in Range(DefaultRules) : CountRows(d, rows) = 1

\* C6: the step that creates the store leaves exactly the six default rules and no
\* terms, and after every later step (opens, addTerm, addRule, check) each default
\* rule is in the rules table exactly once.
C6_DefaultRulesOnce ==
  [][createdBy' = "engine" =>
       IF createdBy = "none"
         THEN terms' = <<>> /\ rules' = DefaultRules
         ELSE EachDefaultRuleOnce(rules')]_vars

\* an engine-created store opened again, after an addTerm and an addRule, with a
\* check made on it
C6_Witness ==
  /\ createdBy = "engine"
  /\ opened = "several"
  /\ terms # <<>>
  /\ AddedRules # {}
  /\ last # NoCheck

\* C7: when instances initialize the same missing store concurrently, each default
\* rule is in the rules table exactly once when all of them are done.
C7_ConcurrentInitSeedsOnce ==
  (\A i \in Instances : pc[i] = "ready") => EachDefaultRuleOnce(rules)

\* C8: once an instance is open on storage that existed without schema or seed
\* data, the schema and the six default rules are there.
C8_OpenHealsExistingStorage ==
  opened # "none" =>
    /\ {"terms", "rules"} \subseteq tables
    /\ \A d \in Range(DefaultRules) : CountRows(d, rules) >= 1

\* C9: check() with a language outside the supported set returns the empty list
\* (stated for calls with no external source, whose answer the core does not decide).
C9_UnsupportedLanguageEmpty ==
  (last # NoCheck /\ last.language \notin SupportedLanguages /\ ~last.ext.configured)
    => last.issues = <<>>

\* the aggregation in which a rule whose pattern cannot be compiled, whatever it
\* raises, contributes nothing and every other source and rule contributes
AggregateSkippingBadRules(text, language, rowOrder, ext) ==
  SortByStart(DeduplicateIssues(
    OrEmpty(FindTermSuggestions(text, language, rowOrder))
      \o RuleIssuesFrom(SelectRules(language, rowOrder), text, 1)
      \o CheckPlaceholders(text) \o ExternalIssuesOf(ext)))

\* C10: a rule whose pattern cannot be compiled is skipped for that rule only: the
\* other rules, the placeholder validation and the aggregation still apply.
C10_BadRuleSkippedAlone ==
  (last # NoCheck /\ {"terms", "rules"} \subseteq tables) =>
    \E rowOrder \in RowOrders :
      last.issues = AggregateSkippingBadRules(last.text, last.language, rowOrder, last.ext)
\* ------------------------------------------- checks on the seeded store
\* pieces of text: the words the default en rules look for, in several cases, a
\* space, a letter and an empty placeholder
Tokens ==
  { <<"l", "o", "g", "i", "n">>, <<"L", "O", "G", "I", "N">>, <<"O", "k">>,
    <<"e", "-", "m", "a", "i", "l">>, <<" ">>, <<"x">>, <<"{", "}">> }

RECURSIVE TokenTexts(_)
\* the texts made of at most n tokens
TokenTexts(n) ==
  IF n = 0 THEN {<<>>}
  ELSE LET shorter == TokenTexts(n - 1)
       IN shorter \cup {t \o k : t \in shorter, k \in Tokens}

\* the texts of test_english_login_check, test_case_insensitive,
\* test_multiple_issues and test_no_issues_found
ExampleTexts ==
  { <<"P", "l", "e", "a", "s", "e", " ", "l", "o", "g", "i", "n", " ", "t", "o", " ", "c", "o", "n", "t", "i", "n", "u", "e">>,
    <<"P", "l", "e", "a", "s", "e", " ", "L", "O", "G", "I", "N", " ", "t", "o", " ", "c", "o", "n", "t", "i", "n", "u", "e">>,
    <<"P", "l", "e", "a", "s", "e", " ", "l", "o", "g", "i", "n", " ", "w", "i", "t", "h", " ", "y", "o", "u", "r", " ", "e", "-", "m", "a", "i", "l">>,
    <<"P", "l", "e", "a", "s", "e", " ", "s", "i", "g", "n", " ", "i", "n", " ", "t", "o", " ", "c", "o", "n", "t", "i", "n", "u", "e">> }

SeedTexts == TokenTexts(MaxTokens) \cup ExampleTexts

NoExternal == [configured |-> FALSE, issues |-> <<>>]

\* check_text(text, "en") with no API key configured
CheckEn(text, rowOrder) == Check(text, "en", rowOrder, NoExternal)

NextSeeded ==
  \/ Open
  \/ \E text \in SeedTexts, rowOrder \in RowOrders : CheckEn(text, rowOrder)
  \/ Return

SpecSeeded == Init /\ [][NextSeeded]_vars

\* lit is written at offset p of text in any letter case, with no word character
\* next to it on either side
OccursAsWord(lit, text, p) ==
  /\ p + Len(lit) <= Len(text)
  /\ \A i \in 1..Len(lit) : SqlLower(text[p + i]) = SqlLower(lit[i])
  /\ (p = 0 \/ text[p] \in NonWordChars)
  /\ (p + Len(lit) = Len(text) \/ text[p + Len(lit) + 1] \in NonWordChars)

Brief(issue) ==
  [original |-> issue.original, suggestion |-> issue.suggestion,
   start |-> issue.start, end |-> issue.end, severity |-> issue.severity]

\* one expected issue for each default en rule and each occurrence of its word
ExpectedSeedIssues(text) ==
  LET en == {d \in Range(DefaultRules) : d.language = "en"}
      hits == {x \in en \X (0..Len(text)) : OccursAsWord(x[1].pattern.lit, text, x[2])}
  IN { [original |-> Slice(text, x[2], x[2] + Len(x[1].pattern.lit)),
        suggestion |-> x[1].replacement, start |-> x[2],
        end |-> x[2] + Len(x[1].pattern.lit), severity |-> x[1].severity] : x \in hits }

HasMinimalPlaceholder(text) ==
  \E p \in 0..(Len(text) - 2) : Slice(text, p, p + 2) \in MinimalPlaceholders

\* C11: on a store with the six default rules only and no terms, check(T, "en")
\* with no external source returns exactly one issue for each case-insensitive
\* whole-word occurrence of a default en word (original as written, the rule's
\* replacement and severity, the occurrence's offsets), and nothing else when T has
\* no empty or minimal placeholder.
C11_SeedRulesFindWholeWords ==
  (last # NoCheck /\ rules = DefaultRules /\ terms = <<>> /\ last.language = "en"
     /\ ~last.ext.configured) =>
    LET found == SelectSeq(last.issues, LAMBDA issue : issue.source = "rules")
    IN /\ {Brief(found[i]) : i \in 1..Len(found)} = ExpectedSeedIssues(last.text)
       /\ Len(found) = Cardinality(ExpectedSeedIssues(last.text))
       /\ \A i \in 1..Len(last.issues) :
            last.issues[i].source # "rules" => last.issues[i].type = "placeholder_issue"
       /\ ~HasMinimalPlaceholder(last.text) => last.issues = found

\* "LOGIN e-mail" checked: two issues, the first with the text as written
C11_Witness ==
  /\ last # NoCheck
  /\ rules = DefaultRules /\ terms = <<>>
  /\ last.text = <<"L", "O", "G", "I", "N", " ", "e", "-", "m", "a", "i", "l">>
  /\ Len(last.issues) = 2
  /\ Brief(last.issues[1]) =
       [original |-> <<"L", "O", "G", "I", "N">>, suggestion |-> <<"s", "i", "g", "n", " ", "i", "n">>, start |-> 0, end |-> 5,
        severity |-> "warning"]
  /\ last.issues[2].start = 6 /\ last.issues[2].end = 12
\* ------------------------------------------------ the aggregator alone
BaseIssue ==
  [type |-> "terminology_match", original |-> <<"a">>, suggestion |-> "X",
   start |-> 0, end |-> 1, severity |-> "info", reason |-> <<"r">>, source |-> "database"]

\* issues as the sources hand them to the aggregator: one issue and the issues that
\* differ from it in one field
SampleIssues ==
  { BaseIssue,
    [BaseIssue EXCEPT !.suggestion = "Y"],
    [BaseIssue EXCEPT !.start = 1],
    [BaseIssue EXCEPT !.end = 2],
    [BaseIssue EXCEPT !.original = <<"A">>],
    [BaseIssue EXCEPT !.type = "preferred_synonym"] }

RawIssueLists == SeqsUpTo(SampleIssues, MaxRaw)

\* a raw list is about to be handed to _deduplicate_issues
InitAggregate ==
  /\ fileExists = FALSE
  /\ tables = {}
  /\ terms = <<>>
  /\ rules = <<>>
  /\ createdBy = "none"
  /\ opened = "none"
  /\ last \in {[called |-> FALSE, raw |-> raw] : raw \in RawIssueLists}
  /\ pc = [i \in 1..NumInstances |-> "init"]

\* issues = self._deduplicate_issues(issues)
Deduplicate ==
  /\ ~last.called
  /\ last' = [called |-> TRUE, raw |-> last.raw, issues |-> DeduplicateIssues(last.raw)]
  /\ UNCHANGED <<fileExists, tables, terms, rules, createdBy, opened, pc>>

NextAggregate == Deduplicate

SpecAggregate == InitAggregate /\ [][NextAggregate]_vars

SameFourTuple(x, y) ==
  /\ x.start = y.start
  /\ x.end = y.end
  /\ x.original = y.original
  /\ x.type = y.type

\* the positions of a raw list with no earlier issue of the same 4-tuple
FirstOfTuple(raw) ==
  {i \in 1..Len(raw) : \A j \in 1..(i - 1) : ~SameFourTuple(raw[j], raw[i])}

\* C12: the aggregator drops an issue exactly when an earlier issue of the raw
\* list has the same (start, end, original, kind); what is left is the other raw
\* issues, unmodified and in raw order.
C12_DropsExactlyLaterDuplicates ==
  last.called =>
    LET keep == FirstOfTuple(last.raw)
    IN /\ Len(last.issues) = Cardinality(keep)
       /\ \A n \in 1..Len(last.issues) :
            \E i \in keep :
              /\ Cardinality({k \in keep : k <= i}) = n
              /\ last.issues[n] = last.raw[i]

\* an issue, then one that differs in the suggestion only, then ones that differ in
\* the kind only: the second is dropped and the others are kept
C12_Witness ==
  /\ last.called
  /\ last.raw = << BaseIssue, [BaseIssue EXCEPT !.suggestion = "Y"],
                   [BaseIssue EXCEPT !.type = "preferred_synonym"] >>
  /\ last.issues = << BaseIssue, [BaseIssue EXCEPT !.type = "preferred_synonym"] >>
\* ------------------------------------------------------- order of ties
\* the merge order of check_text: terms, rules, placeholders, external
SourceRank == [database |-> 1, rules |-> 2, validation |-> 3, llm_analysis |-> 4]

\* what a source emitted in a call, in the order it emitted it
Emitted(source, text, language, rowOrder, ext) ==
  CASE source = "database" -> OrEmpty(FindTermSuggestions(text, language, rowOrder))
    [] source = "rules" -> OrEmpty(FindRuleViolations(text, language, rowOrder))
    [] source = "validation" -> CheckPlaceholders(text)
    [] source = "llm_analysis" -> ExternalIssuesOf(ext)

RECURSIVE IsSubsequence(_, _)
\* the elements of sub are elements of seq, in the order they have in seq
IsSubsequence(sub, seq) ==
  IF sub = <<>> THEN TRUE
  ELSE IF seq = <<>> THEN FALSE
  ELSE IF Head(sub) = Head(seq) THEN IsSubsequence(Tail(sub), Tail(seq))
  ELSE IsSubsequence(sub, Tail(seq))

\* C13: among the issues of a check result with equal start, term issues come
\* before rule issues, these before placeholder issues, these before external
\* issues, and issues of one source are in the order the source emitted them.
C13_TiesKeepMergeOrder ==
  last # NoCheck =>
    \E rowOrder \in RowOrders :
      /\ \A i, j \in 1..Len(last.issues) :
           (i < j /\ last.issues[i].start = last.issues[j].start) =>
             SourceRank[last.issues[i].source] <= SourceRank[last.issues[j].source]
      /\ \A source \in DOMAIN SourceRank :
           \A start \in {last.issues[i].start : i \in 1..Len(last.issues)} :
             IsSubsequence(
               SelectSeq(last.issues,
                         LAMBDA x : x.source = source /\ x.start = start),
               Emitted(source, last.text, last.language, rowOrder, last.ext))

\* a result with two issues of one source at one start and two issues of
\* different sources at one start
C13_Witness ==
  /\ last # NoCheck
  /\ \E i, j \in 1..Len(last.issues) :
       /\ i < j
       /\ last.issues[i].start = last.issues[j].start
       /\ last.issues[i].source = last.issues[j].source
       /\ last.issues[i] # last.issues[j]
  /\ \E i, j \in 1..Len(last.issues) :
       /\ i < j
       /\ last.issues[i].start = last.issues[j].start
       /\ last.issues[i].source = "rules"
       /\ last.issues[j].source = "llm_analysis"
\* ---------------------------------------------------------- term lookup
\* rows given to add_term: a term stored as preferred and as admitted, a term with
\* the LIKE wildcard "_" in it, a term that is a capital letter outside ASCII, a
\* term of the other language and an empty term
LookupTermInputs ==
  { [source_lang |-> "en", target_lang |-> "jp", source_term |-> <<"a">>,
     target_term |-> "X", term_type |-> "preferred", domain |-> "", definition |-> ""],
    [source_lang |-> "en", target_lang |-> "jp", source_term |-> <<"a">>,
     target_term |-> "Y", term_type |-> "admitted", domain |-> "", definition |-> ""],
    [source_lang |-> "en", target_lang |-> "jp", source_term |-> <<"a", "_">>,
     target_term |-> "W", term_type |-> "preferred", domain |-> "", definition |-> ""],
    [source_lang |-> "en", target_lang |-> "jp", source_term |-> <<"E_acute">>,
     target_term |-> "V", term_type |-> "preferred", domain |-> "", definition |-> ""],
    [source_lang |-> "jp", target_lang |-> "en", source_term |-> <<"a">>,
     target_term |-> "U", term_type |-> "preferred", domain |-> "", definition |-> ""],
    [source_lang |-> "en", target_lang |-> "jp", source_term |-> <<>>,
     target_term |-> "T", term_type |-> "preferred", domain |-> "", definition |-> ""] }

LookupAlphabet == {"a", "A", "_", "e_acute"}

LookupTexts == SeqsUpTo(LookupAlphabet, MaxLookupLen)

\* self.database.find_term_suggestions(text, source_lang), called directly
FindSuggestionsCall(text, source_lang, rowOrder) ==
  /\ opened # "none"
  /\ last = NoCheck
  /\ last' = [called |-> TRUE, op |-> "find_term_suggestions", text |-> text,
              language |-> source_lang,
              result |-> FindTermSuggestions(text, source_lang, rowOrder)]
  /\ UNCHANGED <<fileExists, tables, terms, rules, createdBy, opened, pc>>

\* str.strip() on the characters modelled
Strip(s) ==
  LET inked == {i \in 1..Len(s) : s[i] # " "}
  IN IF inked = {} THEN <<>>
     ELSE SubSeq(s, CHOOSE i \in inked : \A j \in inked : i <= j,
                    CHOOSE i \in inked : \A j \in inked : j <= i)

\* a target term is kept as one character, "" when it is empty
OneChar(s) == IF s = <<>> THEN "" ELSE s[1]

\* the text of the <term> elements of a termEntry with one en and one jp term
TbxTermTexts == {<<"a">>, <<" ">>}

\* TerminologyChecker.import_tbx_file on a file with one termEntry: the importer
\* is constructed (setup_database), each <term> with a text is kept stripped, and
\* _save_term_pairs inserts the en -> jp and the jp -> en row
ImportTbxFile(en_text, jp_text) ==
  /\ opened # "none"
  /\ last = NoCheck
  /\ Len(terms) + 2 <= MaxTerms
  /\ fileExists' = TRUE
  /\ tables' = tables \cup {"terms", "rules"}
  /\ createdBy' = IF createdBy = "none" THEN "other" ELSE createdBy
  /\ terms' = terms \o
       << [source_lang |-> "en", target_lang |-> "jp", source_term |-> Strip(en_text),
           target_term |-> OneChar(Strip(jp_text)), term_type |-> "preferred", domain |-> "",
           definition |-> ""],
          [source_lang |-> "jp", target_lang |-> "en", source_term |-> Strip(jp_text),
           target_term |-> OneChar(Strip(en_text)), term_type |-> "preferred", domain |-> "",
           definition |-> ""] >>
  /\ UNCHANGED <<rules, opened, last, pc>>

NextLookup ==
  \/ Open
  \/ \E row \in LookupTermInputs : AddTerm(row)
  \/ \E en_text \in TbxTermTexts, jp_text \in TbxTermTexts : ImportTbxFile(en_text, jp_text)
  \/ \E text \in LookupTexts, language \in SupportedLanguages, rowOrder \in RowOrders :
       FindSuggestionsCall(text, language, rowOrder)
  \/ \E text \in LookupTexts, rowOrder \in RowOrders : CheckEn(text, rowOrder)
  \/ Return

SpecLookup == Init /\ [][NextLookup]_vars

IsCall(op) == last # NoCheck /\ "op" \in DOMAIN last /\ last.op = op
IsLookup == IsCall("find_term_suggestions")
IsCheck == last # NoCheck /\ "issues" \in DOMAIN last

RECURSIVE Occurrences(_, _, _)
\* the case-insensitive occurrences of lit in text from offset p, taken from left
\* to right without overlap, as <<start, end>>
Occurrences(lit, text, p) ==
  IF p + Len(lit) > Len(text) THEN <<>>
  ELSE IF \A i \in 1..Len(lit) : ReFold(text[p + i]) = ReFold(lit[i])
    THEN <<<<p, p + Len(lit)>>>>
           \o Occurrences(lit, text, IF lit = <<>> THEN p + 1 ELSE p + Len(lit))
    ELSE Occurrences(lit, text, p + 1)

\* the number of issues a lookup owes for span m and suggestion: one for each stored
\* row of the language with that suggestion whose term occurs at m
Owed(text, source_lang, m, suggestion) ==
  Cardinality({k \in 1..Len(terms) :
                 /\ terms[k].source_lang = source_lang
                 /\ terms[k].target_term = suggestion
                 /\ m \in Range(Occurrences(terms[k].source_term, text, 0))})

Spans(text) == {m \in (0..Len(text)) \X (0..Len(text)) : m[1] <= m[2]}

\* C14: findSuggestions(text, lang) returns exactly one issue for every
\* non-overlapping case-insensitive literal occurrence in text of every stored term
\* of the language, and no other issue.
C14_OneIssuePerLiteralOccurrence ==
  IsLookup =>
    /\ ~last.result.raised
    /\ \A m \in Spans(last.text) :
         \A suggestion \in {terms[k].target_term : k \in 1..Len(terms)} :
           Cardinality({i \in 1..Len(last.result.issues) :
                          /\ last.result.issues[i].start = m[1]
                          /\ last.result.issues[i].end = m[2]
                          /\ last.result.issues[i].suggestion = suggestion})
             = Owed(last.text, last.language, m, suggestion)
    /\ \A i \in 1..Len(last.result.issues) :
         last.result.issues[i].original
           = Slice(last.text, last.result.issues[i].start, last.result.issues[i].end)
\* rows k and l are a preferred and an admitted or deprecated entry of one term
PreferredAndOther(k, l) ==
  /\ terms[k].term_type = "preferred"
  /\ terms[l].term_type # "preferred"
  /\ terms[k].source_lang = terms[l].source_lang
  /\ terms[k].source_term = terms[l].source_term

\* C15: in the raw list of findSuggestions a preferred term's issue comes before
\* the issue of an admitted or deprecated entry of the same term, and in the check
\* result the term issue left at such an occurrence is the preferred one
\* (suggestion of the preferred entry, severity info).
C15_PreferredEntryFirstAndKept ==
  /\ IsLookup =>
       \A i, j \in 1..Len(last.result.issues) :
         LET x == last.result.issues[i]
             y == last.result.issues[j]
         IN (x.start = y.start /\ x.end = y.end /\ x.severity = "info"
               /\ y.severity = "warning") => i < j
  /\ IsCheck =>
       \A k, l \in 1..Len(terms) :
         (PreferredAndOther(k, l) /\ terms[k].source_lang = last.language) =>
           \A i \in 1..Len(last.issues) :
             LET x == last.issues[i]
             IN (x.source = "database"
                   /\ <<x.start, x.end>> \in Range(Occurrences(terms[k].source_term, last.text, 0)))
                  => (x.severity = "info" /\ x.suggestion = terms[k].target_term)
\* ---------------------------------------------------------- rule lookup
\* self.database.find_rule_violations(text, language), called directly
FindViolationsCall(text, language, rowOrder) ==
  /\ opened # "none"
  /\ last = NoCheck
  /\ last' = [called |-> TRUE, op |-> "find_rule_violations", text |-> text,
              language |-> language,
              result |-> FindRuleViolations(text, language, rowOrder)]
  /\ UNCHANGED <<fileExists, tables, terms, rules, createdBy, opened, pc>>

NextRules ==
  \/ Open
  \/ \E row \in RuleInputs : AddRule(row)
  \/ \E text \in Texts, language \in Languages, rowOrder \in RowOrders :
       FindViolationsCall(text, language, rowOrder)
  \/ Return

SpecRules == Init /\ [][NextRules]_vars

\* the matches of a rule's pattern in text; a pattern that is no regular
\* expression has none
PatternMatches(pattern, text) ==
  IF pattern.kind \in {"lit", "word", "star"} THEN Finditer(pattern, text, 0) ELSE <<>>

\* the issue a rule owes for match m of its pattern
OwedRuleIssue(row, text, m) ==
  [type |-> row.rule_type, original |-> Slice(text, m[1], m[2]),
   suggestion |-> row.replacement, start |-> m[1], end |-> m[2],
   severity |-> row.severity,
   reason |-> IF row.description = ""
                THEN <<"Rule-based suggestion", row.pattern, row.replacement>>
                ELSE <<row.description>>,
   source |-> "rules"]

\* how many times the rules of the language owe issue x for text
OwedCount(x, text, language) ==
  Cardinality({km \in (1..Len(rules)) \X Spans(text) :
                 /\ rules[km[1]].language = language
                 /\ km[2] \in Range(PatternMatches(rules[km[1]].pattern, text))
                 /\ OwedRuleIssue(rules[km[1]], text, km[2]) = x})

OwedRuleIssues(text, language) ==
  {OwedRuleIssue(rules[km[1]], text, km[2]) :
     km \in {kn \in (1..Len(rules)) \X Spans(text) :
               /\ rules[kn[1]].language = language
               /\ kn[2] \in Range(PatternMatches(rules[kn[1]].pattern, text))}}

\* C16: findViolations(text, language) returns, for every rule of the language and
\* every match of its pattern in text, exactly one issue with the rule's rule_type
\* as kind, its replacement, its severity, source rules and its description as
\* reason (a generated pattern-to-replacement reason when the description is
\* empty), and no other issue.
C16_OneIssuePerRuleMatch ==
  IsCall("find_rule_violations") =>
    /\ Range(last.result.issues) = OwedRuleIssues(last.text, last.language)
    /\ \A x \in OwedRuleIssues(last.text, last.language) :
         CountRows(x, last.result.issues) = OwedCount(x, last.text, last.language)
\* ------------------------------------------------ the validator alone
PlaceholderAlphabet == {"{", "}", "$", "%", "s", "(", ")", "n"}

\* named placeholders of each family, the empty and minimal forms, and the text of
\* test_placeholder_validation
PlaceholderExamples ==
  { <<"{", "n", "a", "m", "e", "}">>, <<"{", "c", "o", "u", "n", "t", "}">>,
    <<"$", "{", "n", "a", "m", "e", "}">>, <<"%", "(", "n", "a", "m", "e", ")", "s">>,
    <<"$", "{", "}">>, <<"%", "d">>,
    <<"H", "e", "l", "l", "o", " ", "{", "n", "a", "m", "e", "}", ",", " ", "y", "o", "u", " ", "h", "a", "v", "e", " ", "{", "c", "o", "u", "n", "t", "}", " ", "m", "e", "s", "s", "a", "g", "e", "s">> }

PlaceholderTexts == SeqsUpTo(PlaceholderAlphabet, MaxPlaceholderLen) \cup PlaceholderExamples

\* a text is about to be handed to _check_placeholders
InitPlaceholders ==
  /\ fileExists = FALSE
  /\ tables = {}
  /\ terms = <<>>
  /\ rules = <<>>
  /\ createdBy = "none"
  /\ opened = "none"
  /\ last \in {[called |-> FALSE, text |-> text] : text \in PlaceholderTexts}
  /\ pc = [i \in 1..NumInstances |-> "init"]

\* self._check_placeholders(text, language)
ValidatePlaceholders(language) ==
  /\ ~last.called
  /\ last' = [called |-> TRUE, op |-> "_check_placeholders", text |-> last.text,
              language |-> language, issues |-> CheckPlaceholders(last.text)]
  /\ UNCHANGED <<fileExists, tables, terms, rules, createdBy, opened, pc>>

NextPlaceholders == \E language \in Languages : ValidatePlaceholders(language)

SpecPlaceholders == InitPlaceholders /\ [][NextPlaceholders]_vars

\* a placeholder with nothing between its delimiters
EmptyPlaceholders == {<<"{", "}">>, <<"$", "{", "}">>}

\* the issues the validator owes for text: one for every match of a family that is
\* empty or a minimal form, under that family and with the span of the match
OwedPlaceholderIssues(text) ==
  LET flagged ==
        {fm \in Range(PlaceholderFamilies) \X Spans(text) :
           /\ fm[2] \in Range(PlaceholderFinditer(fm[1], text, 0))
           /\ Slice(text, fm[2][1], fm[2][2]) \in EmptyPlaceholders \cup MinimalPlaceholders}
  IN { [type |-> "placeholder_issue", original |-> Slice(text, fm[2][1], fm[2][2]),
        suggestion |-> "Verify placeholder content", start |-> fm[2][1], end |-> fm[2][2],
        severity |-> "warning", reason |-> <<"Empty or minimal", fm[1]>>,
        source |-> "validation"] : fm \in flagged }

\* C17: whatever the language, the validator returns one placeholder_issue
\* (severity warning, source validation) for exactly the matches of its four
\* families that are empty or one of {}, %s, %d: "${}" is flagged under the shell
\* family over its whole span, and named placeholders are not flagged.
C17_FlagsExactlyEmptyOrMinimal ==
  (last.called /\ IsCall("_check_placeholders")) =>
    /\ Range(last.issues) = OwedPlaceholderIssues(last.text)
    /\ Len(last.issues) = Cardinality(OwedPlaceholderIssues(last.text))
\* ------------------------------------------- store calls and their returns
\* a character a str can hold and UTF-8 cannot encode: a lone surrogate, as
\* json.loads gives for "\\ud800"
Surrogate == "u_d800"

HasSurrogate(s) == \E i \in 1..Len(s) : s[i] = Surrogate

StoreTermInputs ==
  TermInputs \cup
    { [source_lang |-> "en", target_lang |-> "jp", source_term |-> <<Surrogate>>,
       target_term |-> "X", term_type |-> "preferred", domain |-> "", definition |-> ""] }

StoreRuleInputs ==
  RuleInputs \cup
    { [language |-> "en", pattern |-> [kind |-> "lit", lit |-> <<Surrogate>>],
       replacement |-> "w", rule_type |-> "preferred_synonym", severity |-> "warning",
       description |-> ""] }

CallRaised == [raised |-> TRUE, value |-> <<>>]
CallReturned(value) == [raised |-> FALSE, value |-> value]

\* add_term as its caller sees it: the statement is prepared (sqlite3.Error when the
\* table is missing: caught, False), then the parameters are bound (a str that
\* UTF-8 cannot encode raises UnicodeEncodeError, which is no sqlite3.Error), then
\* the row is inserted and committed (True)
AddTermOutcome(row) ==
  IF "terms" \notin tables THEN CallReturned(FALSE)
  ELSE IF HasSurrogate(row.source_term) THEN CallRaised
  ELSE CallReturned(TRUE)

AddRuleOutcome(row) ==
  IF "rules" \notin tables THEN CallReturned(FALSE)
  ELSE IF HasSurrogate(row.pattern.lit) THEN CallRaised
  ELSE CallReturned(TRUE)

\* TerminologyChecker.add_terminology -> TerminologyDatabase.add_term, the caller
\* keeping what the call gave
AddTermCall(row) ==
  /\ opened # "none"
  /\ last = NoCheck
  /\ Len(terms) < MaxTerms
  /\ terms' = IF AddTermOutcome(row) = CallReturned(TRUE) THEN Append(terms, row) ELSE terms
  /\ last' = [called |-> TRUE, op |-> "add_term", row |-> row, result |-> AddTermOutcome(row)]
  /\ UNCHANGED <<fileExists, tables, rules, createdBy, opened, pc>>

\* faulty variant: the new rule takes the place of the rule stored last
AddRuleCallOverwriting(row) ==
  /\ opened # "none"
  /\ last = NoCheck
  /\ Cardinality(AddedRules) < MaxAddedRules
  /\ rules' = IF AddRuleOutcome(row) = CallReturned(TRUE)
                THEN Append(SubSeq(rules, 1, Len(rules) - 1), row)
                ELSE rules
  /\ last' = [called |-> TRUE, op |-> "add_rule", row |-> row, result |-> AddRuleOutcome(row)]
  /\ UNCHANGED <<fileExists, tables, terms, createdBy, opened, pc>>

\* TerminologyChecker.add_rule -> TerminologyDatabase.add_rule
AddRuleCall(row) ==
  /\ opened # "none"
  /\ last = NoCheck
  /\ Cardinality(AddedRules) < MaxAddedRules
  /\ rules' = IF AddRuleOutcome(row) = CallReturned(TRUE) THEN Append(rules, row) ELSE rules
  /\ last' = [called |-> TRUE, op |-> "add_rule", row |-> row, result |-> AddRuleOutcome(row)]
  /\ UNCHANGED <<fileExists, tables, terms, createdBy, opened, pc>>

\* code points of the characters that decide an ORDER BY of the rows modelled
CodePoint(c) ==
  CASE c = "(" -> 40
    [] c = "A" -> 65
    [] c = "L" -> 76
    [] c = "O" -> 79
    [] c = "\\" -> 92
    [] c = "a" -> 97
    [] c = "b" -> 98
    [] c = "e" -> 101
    [] c = "l" -> 108
    [] c = "ka_a" -> 12450
    [] c = "ka_i" -> 12452
    [] c = "ka_ro" -> 12525
    [] c = Surrogate -> 55296

RECURSIVE TextBefore(_, _)
\* s < t in the BINARY collation
TextBefore(s, t) ==
  IF t = <<>> THEN FALSE
  ELSE IF s = <<>> THEN TRUE
  ELSE IF Head(s) = Head(t) THEN TextBefore(Tail(s), Tail(t))
  ELSE CodePoint(Head(s)) < CodePoint(Head(t))

\* the pattern column of a rule: the text the parsed pattern was written as
PatternText(pattern) ==
  CASE pattern.kind = "word" -> <<"\\", "b">> \o pattern.lit \o <<"\\", "b">>
    [] pattern.kind = "star" -> pattern.lit \o <<"*">>
    [] pattern.kind = "overflow" -> pattern.lit \o <<"{", "9", "9", "9", "9", "9", "9", "9", "9", "9", "9", "9", "9", "9", "9", "9", "9", "9", "9", "9", "9", "}">>
    [] OTHER -> pattern.lit

RECURSIVE InsertBySourceTerm(_, _)
InsertBySourceTerm(sorted, x) ==
  IF sorted = <<>> THEN <<x>>
  ELSE IF TextBefore(x.source_term, Head(sorted).source_term)
    THEN <<x>> \o sorted
    ELSE <<Head(sorted)>> \o InsertBySourceTerm(Tail(sorted), x)

RECURSIVE OrderBySourceTerm(_, _, _)
\* ORDER BY source_term
OrderBySourceTerm(rows, i, acc) ==
  IF i > Len(rows) THEN acc
  ELSE OrderBySourceTerm(rows, i + 1, InsertBySourceTerm(acc, rows[i]))

\* rule_type compares as text
RuleTypeRank == [consistency |-> 1, forbidden_term |-> 2, preferred_synonym |-> 3]

RuleBefore(x, y) ==
  \/ RuleTypeRank[x.rule_type] < RuleTypeRank[y.rule_type]
  \/ /\ x.rule_type = y.rule_type
     /\ TextBefore(PatternText(x.pattern), PatternText(y.pattern))

RECURSIVE InsertRule(_, _)
InsertRule(sorted, x) ==
  IF sorted = <<>> THEN <<x>>
  ELSE IF RuleBefore(x, Head(sorted))
    THEN <<x>> \o sorted
    ELSE <<Head(sorted)>> \o InsertRule(Tail(sorted), x)

RECURSIVE OrderRules(_, _, _)
\* ORDER BY rule_type, pattern
OrderRules(rows, i, acc) ==
  IF i > Len(rows) THEN acc ELSE OrderRules(rows, i + 1, InsertRule(acc, rows[i]))

\* LIMIT n
FirstN(rows, n) == SubSeq(rows, 1, IF Len(rows) < n THEN Len(rows) ELSE n)

DefaultLimit == 100
SearchLimit == 50

\* TerminologyDatabase.get_terms_by_language: no try around the query
GetTermsByLanguage(language, limit, rowOrder) ==
  IF "terms" \notin tables THEN CallRaised
  ELSE LET hit == SelectSeq(Scan(terms, rowOrder), LAMBDA row : row.source_lang = language)
           rows == FirstN(OrderBySourceTerm(hit, 1, <<>>), limit)
       IN CallReturned([i \in 1..Len(rows) |->
            [source |-> rows[i].source_term, target |-> rows[i].target_term,
             type |-> rows[i].term_type, domain |-> rows[i].domain,
             definition |-> rows[i].definition]])

\* TerminologyDatabase.get_rules_by_language
GetRulesByLanguage(language, rowOrder) ==
  IF "rules" \notin tables THEN CallRaised
  ELSE LET hit == SelectSeq(Scan(rules, rowOrder), LAMBDA row : row.language = language)
           rows == OrderRules(hit, 1, <<>>)
       IN CallReturned([i \in 1..Len(rows) |->
            [pattern |-> rows[i].pattern, replacement |-> rows[i].replacement,
             type |-> rows[i].rule_type, severity |-> rows[i].severity,
             description |-> rows[i].description]])

\* str.lower()
PyLowerStr(s) == [i \in 1..Len(s) |-> ReFold(s[i])]

\* LOWER(column) LIKE '%' || query.lower() || '%'; a target term is one character
SearchHit(row, query) ==
  LET pat == <<"%">> \o PyLowerStr(query) \o <<"%">>
  IN \/ LikeMatch(pat, SqlLowerStr(row.source_term))
     \/ LikeMatch(pat, IF row.target_term = "" THEN <<>>
                         ELSE SqlLowerStr(<<row.target_term>>))

\* TerminologyDatabase.search_terms; language "" stands for no language given
SearchTerms(query, language, rowOrder) ==
  IF "terms" \notin tables THEN CallRaised
  ELSE LET hit == SelectSeq(Scan(terms, rowOrder),
                    LAMBDA row : /\ SearchHit(row, query)
                                 /\ \/ language = ""
                                    \/ row.source_lang = language
                                    \/ row.target_lang = language)
           rows == FirstN(OrderBySourceTerm(hit, 1, <<>>), SearchLimit)
       IN CallReturned([i \in 1..Len(rows) |->
            [source |-> rows[i].source_term, target |-> rows[i].target_term,
             source_lang |-> rows[i].source_lang, target_lang |-> rows[i].target_lang,
             domain |-> rows[i].domain]])

\* TerminologyDatabase.get_statistics: the counts (rows written by add_term have no
\* source_file)
GetStatistics ==
  IF {"terms", "rules"} \subseteq tables
    THEN CallReturned(
      [total_terms |-> Len(terms), total_rules |-> Len(rules),
       terms_by_language |->
         [l \in {terms[i].source_lang : i \in 1..Len(terms)} |->
            Cardinality({i \in 1..Len(terms) : terms[i].source_lang = l})],
       rules_by_language |->
         [l \in {rules[i].language : i \in 1..Len(rules)} |->
            Cardinality({i \in 1..Len(rules) : rules[i].language = l})],
       source_files |-> <<>>])
    ELSE CallRaised

Queries == {<<>>, <<"a">>, <<"_">>}

QueryOps == {"get_terms_by_language", "get_rules_by_language", "search_terms",
             "get_statistics", "find_term_suggestions", "find_rule_violations"}

\* what a query operation gives for arguments text (the text or the query),
\* language and limit
QueryOutcome(op, text, language, limit, rowOrder) ==
  CASE op = "get_terms_by_language" -> GetTermsByLanguage(language, limit, rowOrder)
    [] op = "get_rules_by_language" -> GetRulesByLanguage(language, rowOrder)
    [] op = "search_terms" -> SearchTerms(text, language, rowOrder)
    [] op = "get_statistics" -> GetStatistics
    [] op = "find_term_suggestions" ->
         LET r == FindTermSuggestions(text, language, rowOrder)
         IN IF r.raised THEN CallRaised ELSE CallReturned(r.issues)
    [] op = "find_rule_violations" ->
         LET r == FindRuleViolations(text, language, rowOrder)
         IN IF r.raised THEN CallRaised ELSE CallReturned(r.issues)

\* a query operation of the store, called directly or through the method of
\* TerminologyChecker that returns what the store returns
QueryCall(op, text, language, limit, rowOrder) ==
  /\ opened # "none"
  /\ last = NoCheck
  /\ last' = [called |-> TRUE, op |-> op, text |-> text, language |-> language,
              result |-> QueryOutcome(op, text, language, limit, rowOrder)]
  /\ UNCHANGED <<fileExists, tables, terms, rules, createdBy, opened, pc>>

NextStore ==
  \/ Open
  \/ \E stage \in InterruptStages : OpenInterrupted(stage)
  \/ \E row \in StoreTermInputs : AddTermCall(row)
  \/ \E row \in StoreRuleInputs : AddRuleCall(row)
  \/ \E op \in QueryOps, text \in Queries, language \in SupportedLanguages \cup {""},
        limit \in {1, DefaultLimit}, rowOrder \in RowOrders :
       QueryCall(op, text, language, limit, rowOrder)
  \/ Return

SpecStore == Init /\ [][NextStore]_vars
IsAddCall(call) ==
  call # NoCheck /\ "op" \in DOMAIN call /\ call.op \in {"add_term", "add_rule"}

\* C18: addTerm and addRule never raise: they return true exactly when the row
\* was appended to their table and nothing else changed, and false with both
\* tables unchanged.
C18_AddReturnsWhetherInserted ==
  [][(last = NoCheck /\ IsAddCall(last')) =>
       /\ ~last'.result.raised
       /\ last'.result.value = TRUE <=>
            IF last'.op = "add_term"
              THEN terms' = Append(terms, last'.row) /\ rules' = rules
              ELSE rules' = Append(rules, last'.row) /\ terms' = terms
       /\ last'.result.value = FALSE => (terms' = terms /\ rules' = rules)]_vars

\* C19: every row of the terms table has a non-empty source_lang, target_lang,
\* source_term and target_term, and no check reports a match of an empty term.
C19_NoEmptyTermStored ==
  /\ \A k \in 1..Len(terms) :
       /\ terms[k].source_lang # ""
       /\ terms[k].target_lang # ""
       /\ terms[k].source_term # <<>>
       /\ terms[k].target_term # ""
  /\ IsCheck =>
       \A i \in 1..Len(last.issues) :
         last.issues[i].source = "database" => last.issues[i].original # <<>>

\* the tables a query operation reads
TablesRead(op) ==
  CASE op \in {"get_terms_by_language", "search_terms", "find_term_suggestions"} -> {"terms"}
    [] op \in {"get_rules_by_language", "find_rule_violations"} -> {"rules"}
    [] op = "get_statistics" -> {"terms", "rules"}

\* C20: a query operation never raises, and when the storage fails under it (a
\* table it reads is missing) it returns an empty result.
C20_QueryFailureGivesEmpty ==
  (last # NoCheck /\ "op" \in DOMAIN last /\ last.op \in QueryOps) =>
    /\ ~last.result.raised
    /\ ~(TablesRead(last.op) \subseteq tables) => last.result.value = <<>>

\* ------------------------------------------------ external analysis source
\* check_text with an API key configured and a client behind LLMProvider. The
\* request is one awaited call, terminology.py:64 -> 241 -> 257: the coroutine is
\* suspended in asyncio.to_thread(client.chat.completions.create, ...) until the
\* client returns or raises. No timeout argument is passed and the await is not
\* wrapped in asyncio.wait_for.
MaxExternalIssues == 2

RequiredKeys == {"type", "original", "suggestion", "severity", "reason"}
AllKeys == RequiredKeys \cup {"start", "end", "source"}

\* One element of the "issues" array of an answer, as the parser sees it: the keys
\* it has, and the values of original, start, end and source where present.
\* original_type is "list" when the value of original is a JSON array.
WireIssue(keys, original, original_type, start, end, source) ==
  [keys |-> keys, original |-> original, original_type |-> original_type,
   start |-> start, end |-> end, source |-> source]

\* text[:1]
FirstChar(text) == IF text = <<>> THEN <<>> ELSE <<text[1]>>

WireIssues(text) ==
  { WireIssue(AllKeys, <<"x">>, "str", 0, Len(text), "llm_analysis"),
    WireIssue(AllKeys \ {"reason"}, <<"x">>, "str", 0, Len(text), "llm_analysis"),
    WireIssue(RequiredKeys, FirstChar(text), "str", 0, 0, ""),
    WireIssue(RequiredKeys, <<"z">>, "str", 0, 0, ""),
    WireIssue(AllKeys, <<"x">>, "str", 0, Len(text) + 1, "llm_analysis"),
    WireIssue(AllKeys, <<"x">>, "str", 0, Len(text), "database"),
    WireIssue(AllKeys, <<"x">>, "list", 0, 1, "llm_analysis"),
    WireIssue(RequiredKeys, <<"x">>, "list", 0, 0, "") }

\* What the client does with one request: it never returns, it raises, or it
\* returns a message whose content is no JSON, a JSON array, or a JSON object
\* with an "issues" array.
Responses(text) ==
  { [kind |-> "none"], [kind |-> "error"], [kind |-> "text"], [kind |-> "array"] }
    \cup { [kind |-> "object", issues |-> w] :
             w \in SeqsUpTo(WireIssues(text), MaxExternalIssues) }

RECURSIVE FindFrom(_, _, _)
\* str.find(sub): the lowest index where sub occurs, -1 when it does not occur
FindFrom(text, sub, p) ==
  IF p + Len(sub) > Len(text) THEN -1
  ELSE IF Slice(text, p, p + Len(sub)) = sub THEN p
  ELSE FindFrom(text, sub, p + 1)

Find(text, sub) == FindFrom(text, sub, 0)

\* terminology.py:382-383
ParsedSource(w) == IF "source" \in w.keys THEN w.source ELSE "llm_analysis"

\* terminology.py:378-385, one accepted element with its missing fields filled in
ParsedIssue(w, text) ==
  LET start == IF "start" \in w.keys THEN w.start ELSE Find(text, w.original)
      end == IF "end" \in w.keys THEN w.end ELSE start + Len(w.original)
      issue == [type |-> "terminology_suggestion", original |-> w.original,
                suggestion |-> "llm", start |-> start, end |-> end,
                severity |-> "info", reason |-> <<"llm">>, source |-> ParsedSource(w)]
  IN IF w.original_type = "list"
       THEN [k \in DOMAIN issue \cup {"original_type"} |->
               IF k = "original_type" THEN "list" ELSE issue[k]]
       ELSE issue

RECURSIVE ValidIssuesFrom(_, _, _)
\* the loop of terminology.py:375-385: an element lacking a required key is skipped
ValidIssuesFrom(ws, text, i) ==
  IF i > Len(ws) THEN <<>>
  ELSE (IF RequiredKeys \subseteq ws[i].keys THEN <<ParsedIssue(ws[i], text)>> ELSE <<>>)
         \o ValidIssuesFrom(ws, text, i + 1)

\* LLMProvider._parse_llm_response: JSONDecodeError is caught inside; data.get on a
\* JSON array raises AttributeError and str.find on a list raises TypeError, which
\* are not caught here
ParseLlmResponse(resp, text) ==
  CASE resp.kind = "text" -> Returned(<<>>)
    [] resp.kind = "array" -> Raised
    [] resp.kind = "object" ->
         IF \E i \in 1..Len(resp.issues) :
              /\ RequiredKeys \subseteq resp.issues[i].keys
              /\ "start" \notin resp.issues[i].keys
              /\ resp.issues[i].original_type = "list"
           THEN Raised
           ELSE Returned(ValidIssuesFrom(resp.issues, text, 1))

\* LLMProvider._analyze_with_openai after the client has answered: except
\* Exception gives the empty list
AnalyzeWithOpenai(resp, text) ==
  IF resp.kind = "error" THEN <<>>
  ELSE LET parsed == ParseLlmResponse(resp, text)
       IN IF parsed.raised THEN <<>> ELSE parsed.issues

\* a dict key (start, end, original, type) holding a list cannot be hashed
Hashable(issue) == "original_type" \notin DOMAIN issue

\* check_text, steps 5 and the except clause: _deduplicate_issues raises TypeError
\* on an unhashable key and the merged list is returned as it is
Finish(gathered, contributed) ==
  LET merged == gathered \o contributed
  IN IF \E i \in 1..Len(merged) : ~Hashable(merged[i]) THEN merged
     ELSE SortByStart(DeduplicateIssues(merged))

ExternalTexts ==
  { <<>>, <<"x">>, <<"O", "k">>, <<"O", "k", " ", "l", "o", "g", "i", "n">>,
    <<"l", "o", "g", "i", "n", " ", "l", "o", "g", "i", "n">> }

\* check_text up to the awaited call: steps 1 to 3 have run, the digest is built
\* and the request is with the client. A failing store step ends the call at once.
Request(text, language, rowOrder, resp) ==
  /\ opened # "none"
  /\ last = NoCheck
  /\ LET t == FindTermSuggestions(text, language, rowOrder)
         r == FindRuleViolations(text, language, rowOrder)
     IN last' = IF t.raised \/ r.raised
                  THEN [called |-> TRUE, text |-> text, language |-> language,
                        response |-> resp, gathered |-> t.issues, contributed |-> <<>>,
                        issues |-> t.issues]
                  ELSE [called |-> TRUE, text |-> text, language |-> language,
                        response |-> resp, awaiting |-> TRUE,
                        gathered |-> t.issues \o r.issues \o CheckPlaceholders(text)]
  /\ UNCHANGED <<fileExists, tables, terms, rules, createdBy, opened, pc>>

IsAwaiting == last # NoCheck /\ "awaiting" \in DOMAIN last

\* the client returns or raises; check_text runs to its return statement
Respond ==
  /\ IsAwaiting
  /\ last.response.kind # "none"
  /\ LET contributed == AnalyzeWithOpenai(last.response, last.text)
     IN last' = [called |-> TRUE, text |-> last.text, language |-> last.language,
                 response |-> last.response, gathered |-> last.gathered,
                 contributed |-> contributed,
                 issues |-> Finish(last.gathered, contributed)]
  /\ UNCHANGED <<fileExists, tables, terms, rules, createdBy, opened, pc>>

\* the caller takes the returned list
ReturnExternal ==
  /\ IsCheck
  /\ last' = NoCheck
  /\ UNCHANGED <<fileExists, tables, terms, rules, createdBy, opened, pc>>

NextExternal ==
  \/ Open
  \/ \E text \in ExternalTexts, language \in SupportedLanguages, rowOrder \in RowOrders :
       \E resp \in Responses(text) : Request(text, language, rowOrder, resp)
  \/ Respond
  \/ ReturnExternal

SpecExternal == Init /\ [][NextExternal]_vars

\* the event loop resumes every coroutine that can continue and every caller
\* takes the result it is handed
SpecExternalFair == SpecExternal /\ WF_vars(Respond) /\ WF_vars(ReturnExternal)

IsExternalCheck == IsCheck /\ "contributed" \in DOMAIN last

\* C21: a check whose request is with the external source always completes, also
\* when the source never answers.
C21_CheckAlwaysCompletes == IsAwaiting ~> IsExternalCheck

\* an element the parser should not accept: a required key is missing, or the
\* value of original is no string
MalformedIssue(w) == ~(RequiredKeys \subseteq w.keys) \/ w.original_type = "list"

\* an answer that is no JSON, no JSON object, or whose issues are all malformed
Malformed(resp) ==
  \/ resp.kind \in {"text", "array"}
  \/ /\ resp.kind = "object"
     /\ resp.issues # <<>>
     /\ \A i \in 1..Len(resp.issues) : MalformedIssue(resp.issues[i])

\* C22: after a malformed answer of the external source the check returns the
\* issues of the deterministic sources alone, deduplicated and sorted by start.
C22_MalformedAnswerContributesNothing ==
  (IsExternalCheck /\ Malformed(last.response))
    => last.issues = SortByStart(DeduplicateIssues(last.gathered))

\* C23: every issue of a returned list lies inside the text, also an issue of the
\* external source whose offsets were filled in by the parser.
C23_OffsetsInsideText ==
  IsExternalCheck =>
    \A k \in 1..Len(last.issues) :
      /\ 0 <= last.issues[k].start
      /\ last.issues[k].start <= last.issues[k].end
      /\ last.issues[k].end <= Len(last.text)

\* C29: every issue of a returned list carries the tag of the component it came
\* from; an issue contributed by the external source carries llm_analysis and
\* never database, rules or validation.
C29_SourceTagNamesProducer ==
  IsExternalCheck =>
    /\ \A k \in 1..Len(last.gathered) : last.gathered[k].source \in DirectSources
    /\ \A k \in 1..Len(last.contributed) :
         (\E n \in 1..Len(last.issues) : last.issues[n] = last.contributed[k])
           => last.contributed[k].source = "llm_analysis"

\* ---------------------------------------------------------------- transport
\* app/main.py: the handlers of the protected endpoints, entered with the
\* parameters their signatures declare. terminology_checker is the module-level
\* TerminologyChecker (main.py:61), created when the application is loaded.
ApiToken == "TEST_TOKEN"

\* An Authorization header: absent (Header(None)), or present with the words
\* str.split() gives for its value.
NoHeader == [present |-> FALSE, parts |-> <<>>]
Header(parts) == [present |-> TRUE, parts |-> parts]

AuthHeaders ==
  { NoHeader, Header(<<>>),
    Header(<<"Bearer", "TEST_TOKEN">>), Header(<<"bearer", "TEST_TOKEN">>),
    Header(<<"Bearer", "INVALID_TOKEN">>), Header(<<"Basic", "TEST_TOKEN">>),
    Header(<<"TEST_TOKEN">>), Header(<<"Bearer", "TEST_TOKEN", "x">>) }

\* scheme.lower()
SchemeLower(scheme) == IF scheme \in {"Bearer", "bearer"} THEN "bearer" ELSE "basic"

\* faulty variant: the token is not compared with the configured one
VerifyTokenSchemeOnly(authorization) ==
  /\ authorization.present
  /\ Len(authorization.parts) = 2
  /\ SchemeLower(authorization.parts[1]) = "bearer"

\* auth.verify_token: a value that does not split into two words is compared as a
\* whole with "Bearer " + API_TOKEN, which it cannot equal
VerifyToken(authorization) ==
  IF ~authorization.present \/ authorization.parts = <<>> THEN FALSE
  ELSE IF Len(authorization.parts) = 2
    THEN /\ SchemeLower(authorization.parts[1]) = "bearer"
         /\ authorization.parts[2] = ApiToken
    ELSE FALSE

Endpoints == {"/context-request", "/resources", "/mcp/tools", "/mcp/call"}
ToolNames == {"check_ui_terminology", "get_terminology_rules", "unknown_tool"}
RequestTexts == { <<>>, <<"x">>, <<"l", "o", "g", "i", "n">> }

\* what the handler did with one request: the status of the answer, whether
\* check_text was invoked and with which language, and the issues it returned
Handled(endpoint, authorization, tool_name, text, language, status, checked, issues) ==
  [called |-> TRUE, op |-> endpoint, authorization |-> authorization,
   tool_name |-> tool_name, text |-> text, language |-> language,
   status |-> status, checked |-> checked, body |-> issues]

Rejected(endpoint, authorization, tool_name, text, language, status) ==
  Handled(endpoint, authorization, tool_name, text, language, status, FALSE, <<>>)

\* POST /context-request, main.py:79-122
ContextRequest(authorization, text, lang, rowOrder) ==
  /\ opened # "none"
  /\ last = NoCheck
  /\ last' = IF ~VerifyToken(authorization)
               THEN Rejected("/context-request", authorization, "", text, lang, 401)
             ELSE IF lang \notin {"en", "jp"}
               THEN Rejected("/context-request", authorization, "", text, lang, 400)
             ELSE Handled("/context-request", authorization, "", text, lang, 200, TRUE,
                          CheckText(text, lang, rowOrder, NoExternal))
  /\ UNCHANGED <<fileExists, tables, terms, rules, createdBy, opened, pc>>

\* GET /mcp/tools, main.py:124-173
ListTools(authorization) ==
  /\ opened # "none"
  /\ last = NoCheck
  /\ last' = IF ~VerifyToken(authorization)
               THEN Rejected("/mcp/tools", authorization, "", <<>>, "", 401)
               ELSE Rejected("/mcp/tools", authorization, "", <<>>, "", 200)
  /\ UNCHANGED <<fileExists, tables, terms, rules, createdBy, opened, pc>>

\* POST /mcp/call, main.py:175-202, with arguments = {"text": ..., "language": ...}
CallTool(authorization, tool_name, text, language, rowOrder) ==
  /\ opened # "none"
  /\ last = NoCheck
  /\ last' = IF ~VerifyToken(authorization)
               THEN Rejected("/mcp/call", authorization, tool_name, text, language, 401)
             ELSE IF tool_name = "check_ui_terminology"
               THEN Handled("/mcp/call", authorization, tool_name, text, language, 200, TRUE,
                            CheckText(text, language, rowOrder, NoExternal))
             ELSE IF tool_name = "get_terminology_rules"
               THEN Rejected("/mcp/call", authorization, tool_name, text, language, 200)
             ELSE Rejected("/mcp/call", authorization, tool_name, text, language, 404)
  /\ UNCHANGED <<fileExists, tables, terms, rules, createdBy, opened, pc>>

\* GET /resources, main.py:204-233
ListResources(authorization) ==
  /\ opened # "none"
  /\ last = NoCheck
  /\ last' = IF ~VerifyToken(authorization)
               THEN Rejected("/resources", authorization, "", <<>>, "", 401)
               ELSE Rejected("/resources", authorization, "", <<>>, "", 200)
  /\ UNCHANGED <<fileExists, tables, terms, rules, createdBy, opened, pc>>

NextTransport ==
  \/ Open
  \/ \E authorization \in AuthHeaders, text \in RequestTexts, lang \in Languages,
        rowOrder \in RowOrders : ContextRequest(authorization, text, lang, rowOrder)
  \/ \E authorization \in AuthHeaders : ListTools(authorization)
  \/ \E authorization \in AuthHeaders, tool_name \in ToolNames, text \in RequestTexts,
        language \in Languages, rowOrder \in RowOrders :
       CallTool(authorization, tool_name, text, language, rowOrder)
  \/ \E authorization \in AuthHeaders : ListResources(authorization)
  \/ Return

SpecTransport == Init /\ [][NextTransport]_vars

IsRequest == last # NoCheck /\ "status" \in DOMAIN last

\* no header, or a bearer token that is not the configured one
Unauthenticated(authorization) ==
  \/ ~authorization.present
  \/ /\ Len(authorization.parts) = 2
     /\ authorization.parts[1] \in {"Bearer", "bearer"}
     /\ authorization.parts[2] # ApiToken

C26_LanguageValidatedBeforeCheck ==
  ( /\ IsRequest
    /\ last.authorization = Header(<<"Bearer", "TEST_TOKEN">>)
    /\ \/ last.op = "/context-request"
       \/ last.op = "/mcp/call" /\ last.tool_name = "check_ui_terminology"
    /\ last.language \notin SupportedLanguages )
    => (last.status = 400 /\ ~last.checked)

\* ------------------------------------------------------ language scoping
\* Terms and rules of both languages on one store: the same source term and the
\* same pattern are stored once for en and once for jp, with different targets.
LanguageTermInputs ==
  { [source_lang |-> "en", target_lang |-> "jp", source_term |-> <<"a">>,
     target_term |-> "X", term_type |-> "preferred", domain |-> "", definition |-> ""],
    [source_lang |-> "jp", target_lang |-> "en", source_term |-> <<"a">>,
     target_term |-> "J", term_type |-> "preferred", domain |-> "", definition |-> ""],
    [source_lang |-> "jp", target_lang |-> "en",
     source_term |-> <<"ka_ro", "ka_gu", "ka_i", "ka_n">>,
     target_term |-> "S", term_type |-> "admitted", domain |-> "", definition |-> ""] }

LanguageRuleInputs ==
  { [language |-> "en", pattern |-> [kind |-> "lit", lit |-> <<"a">>],
     replacement |-> "s", rule_type |-> "consistency", severity |-> "info",
     description |-> ""],
    [language |-> "jp", pattern |-> [kind |-> "lit", lit |-> <<"a">>],
     replacement |-> "t", rule_type |-> "consistency", severity |-> "info",
     description |-> ""] }

\* tests/test_terminology.py:30, ten characters: rogu-in in katakana, then
\* shi-te-ku-da-sa-i in hiragana
JpSentence ==
  <<"ka_ro", "ka_gu", "ka_i", "ka_n", "hi_shi", "hi_te", "hi_ku", "hi_da", "hi_sa", "hi_i">>

LanguageTexts ==
  { JpSentence, <<"a">>, <<"l", "o", "g", "i", "n">>,
    <<"a", " ", "ka_ro", "ka_gu", "ka_i", "ka_n">>,
    <<"l", "o", "g", "i", "n", " ", "ka_ro", "ka_gu", "ka_i", "ka_n">> }

NextLanguages ==
  \/ Open
  \/ \E row \in LanguageTermInputs : AddTerm(row)
  \/ \E row \in LanguageRuleInputs : AddRule(row)
  \/ \E text \in LanguageTexts, language \in SupportedLanguages, rowOrder \in RowOrders :
       Check(text, language, rowOrder, NoExternal)
  \/ Return

SpecLanguages == Init /\ [][NextLanguages]_vars

DerivesFromTerm(issue, text, language) ==
  \E k \in 1..Len(terms) :
    /\ terms[k].source_lang = language
    /\ issue \in Range(TermIssues(terms[k], text))

DerivesFromRule(issue, text, language) ==
  \E k \in 1..Len(rules) :
    /\ rules[k].language = language
    /\ issue \in Range(RuleIssues(rules[k], text))

\* C25: every database issue of check(T, L) derives from a stored term whose
\* source_lang is L and every rules issue from a stored rule whose language is L,
\* whatever terms and rules were added; on the seed-only store the jp check of
\* the test sentence returns the one issue rogu-in -> sain-in.
C25_OnlyRecordsOfOwnLanguage ==
  IsCheck =>
    /\ \A n \in 1..Len(last.issues) :
         /\ last.issues[n].source = "database"
              => DerivesFromTerm(last.issues[n], last.text, last.language)
         /\ last.issues[n].source = "rules"
              => DerivesFromRule(last.issues[n], last.text, last.language)
    /\ (terms = <<>> /\ rules = DefaultRules /\ last.text = JpSentence /\ last.language = "jp")
         => /\ Len(last.issues) = 1
            /\ last.issues[1].original = <<"ka_ro", "ka_gu", "ka_i", "ka_n">>
            /\ last.issues[1].suggestion = <<"ka_sa", "ka_i", "ka_n", "ka_i", "ka_n">>
            /\ last.issues[1].source = "rules"

\* a jp check on a store that also holds an en term and an en rule matching the text
C25_Witness ==
  /\ IsCheck
  /\ last.language = "jp"
  /\ last.text = <<"a", " ", "ka_ro", "ka_gu", "ka_i", "ka_n">>
  /\ \E k \in 1..Len(terms) : terms[k].source_lang = "en"
  /\ \E k \in 1..Len(terms) : terms[k].source_lang = "jp"
  /\ \E k \in 1..Len(rules) : rules[k] \in LanguageRuleInputs /\ rules[k].language = "en"
  /\ Len(last.issues) = 2

\* C30: on the seed-only store no issue produced by a default rule has a
\* suggestion equal to its original: text already written as the replacement
\* is not flagged.
C30_ReplacementTextNotFlagged ==
  (IsCheck /\ terms = <<>> /\ rules = DefaultRules) =>
    \A n \in 1..Len(last.issues) :
      last.issues[n].source = "rules"
        => last.issues[n].suggestion # last.issues[n].original

\* ------------------------------------------------------------ frame effects
\* every operation of the engine on one store: initialization and
\* re-initialization, the two writes, the queries, statistics and check
FrameTexts == { <<>>, <<"a">>, <<"l", "o", "g", "i", "n">> }

NextFrame ==
  \/ Open
  \/ \E stage \in InterruptStages : OpenInterrupted(stage)
  \/ \E row \in StoreTermInputs : AddTermCall(row)
  \/ \E row \in StoreRuleInputs : AddRuleCall(row)
  \/ \E op \in QueryOps, text \in Queries, language \in SupportedLanguages \cup {""},
        limit \in {1, DefaultLimit}, rowOrder \in RowOrders :
       QueryCall(op, text, language, limit, rowOrder)
  \/ \E text \in FrameTexts, rowOrder \in RowOrders : CheckEn(text, rowOrder)
  \/ Return

SpecFrame == Init /\ [][NextFrame]_vars

IsPrefix(s, t) == Len(s) <= Len(t) /\ SubSeq(t, 1, Len(s)) = s

Succeeded(call, op) == IsAddCall(call) /\ call.op = op /\ call.result = CallReturned(TRUE)

\* C27: no step modifies or removes a stored row; a successful addTerm appends
\* exactly its term and leaves the rules unchanged, a successful addRule appends
\* exactly its rule and leaves the terms unchanged; every other call (check, a
\* query, statistics, a failed write) and every re-initialization of an existing
\* store leaves both tables unchanged.
C27_StoreIsAppendOnly ==
  [][ /\ IsPrefix(terms, terms')
      /\ IsPrefix(rules, rules')
      /\ (last = NoCheck /\ last' # NoCheck) =>
           IF Succeeded(last', "add_term")
             THEN terms' = Append(terms, last'.row) /\ rules' = rules
           ELSE IF Succeeded(last', "add_rule")
             THEN rules' = Append(rules, last'.row) /\ terms' = terms
           ELSE terms' = terms /\ rules' = rules
      /\ (fileExists /\ opened' # opened) => (terms' = terms /\ rules' = rules) ]_vars

\* a rule was appended to a store that already holds a term and the seed rules
C27_Witness ==
  /\ Succeeded(last, "add_rule")
  /\ Len(terms) > 0
  /\ Len(rules) = Len(DefaultRules) + 1
  /\ opened = "several"

\* ------------------------------------------------- check against writers
\* check_text reads the terms through one connection (database.py:93) and the
\* rules through another one opened afterwards (database.py:127); each SELECT is a
\* transaction of its own. A second engine on the same store, in another thread or
\* process, can commit add_term and add_rule between the two reads.
WriterTermInputs ==
  { [source_lang |-> "en", target_lang |-> "jp", source_term |-> <<"a">>,
     target_term |-> "X", term_type |-> "preferred", domain |-> "", definition |-> ""],
    [source_lang |-> "en", target_lang |-> "jp", source_term |-> <<"b">>,
     target_term |-> "Z", term_type |-> "admitted", domain |-> "", definition |-> ""] }

WriterRuleInputs ==
  { [language |-> "en", pattern |-> [kind |-> "lit", lit |-> <<"a">>],
     replacement |-> "s", rule_type |-> "consistency", severity |-> "info",
     description |-> ""] }

WriterTexts == { <<"a">>, <<"a", "b">>, <<"l", "o", "g", "i", "n">> }

\* what check_text would return on the store as it is now, for either order of
\* tied rows
ResultsNow(text, language) ==
  { CheckText(text, language, rowOrder, NoExternal) : rowOrder \in RowOrders }

\* check_text, step 1: the terms are read. The call record keeps the results of
\* every store state that exists while the call runs: each step taken during the
\* call adds the results of the state it starts from.
CheckReadTerms(text, language, rowOrder) ==
  /\ opened # "none"
  /\ last = NoCheck
  /\ last' = [called |-> TRUE, text |-> text, language |-> language, reading |-> "rules",
              term_suggestions |-> FindTermSuggestions(text, language, rowOrder),
              candidates |-> ResultsNow(text, language)]
  /\ UNCHANGED <<fileExists, tables, terms, rules, createdBy, opened, pc>>

IsReading == last # NoCheck /\ "reading" \in DOMAIN last

\* add_term committed by the other engine while the check is between its reads
WriterAddTerm(row) ==
  /\ IsReading
  /\ Len(terms) < MaxTerms
  /\ terms' = IF "terms" \in tables THEN Append(terms, row) ELSE terms
  /\ UNCHANGED <<fileExists, tables, rules, createdBy, opened, pc>>
  /\ last' = [last EXCEPT !.candidates = @ \cup ResultsNow(last.text, last.language)]

\* add_rule committed by the other engine while the check is between its reads
WriterAddRule(row) ==
  /\ IsReading
  /\ Cardinality(AddedRules) < MaxAddedRules
  /\ rules' = IF "rules" \in tables THEN Append(rules, row) ELSE rules
  /\ UNCHANGED <<fileExists, tables, terms, createdBy, opened, pc>>
  /\ last' = [last EXCEPT !.candidates = @ \cup ResultsNow(last.text, last.language)]

\* check_text, steps 2 to 5 and the return: the rules are read now
CheckReadRules(rowOrder) ==
  /\ IsReading
  /\ LET t == last.term_suggestions
         r == FindRuleViolations(last.text, last.language, rowOrder)
     IN last' = [called |-> TRUE, text |-> last.text, language |-> last.language,
                 candidates |-> last.candidates \cup ResultsNow(last.text, last.language),
                 issues |-> IF t.raised THEN <<>>
                            ELSE IF r.raised THEN t.issues
                            ELSE SortByStart(DeduplicateIssues(
                                   t.issues \o r.issues \o CheckPlaceholders(last.text)))]
  /\ UNCHANGED <<fileExists, tables, terms, rules, createdBy, opened, pc>>

\* the caller takes the returned list
ReturnChecked ==
  /\ IsCheck
  /\ last' = NoCheck
  /\ UNCHANGED <<fileExists, tables, terms, rules, createdBy, opened, pc>>

NextWriters ==
  \/ Open
  \/ \E row \in WriterTermInputs : AddTerm(row)
  \/ \E row \in WriterRuleInputs : AddRule(row)
  \/ \E text \in WriterTexts, rowOrder \in RowOrders : CheckReadTerms(text, "en", rowOrder)
  \/ \E row \in WriterTermInputs : WriterAddTerm(row)
  \/ \E row \in WriterRuleInputs : WriterAddRule(row)
  \/ \E rowOrder \in RowOrders : CheckReadRules(rowOrder)
  \/ ReturnChecked

SpecWriters == Init /\ [][NextWriters]_vars

\* C28: the list a check returns is the list check gives on one of the store
\* states that existed between its start and its end.
C28_ResultOfOneStoreState ==
  (IsCheck /\ "candidates" \in DOMAIN last) => last.issues \in last.candidates

====
